---- MODULE Spec2Model ----
(***************************************************************************)
(* A model of the SEC company-facts pipeline: extraction of annual series  *)
(* from the raw facts document (clean_company_data), the outer merge of    *)
(* the series on the year (merge_final_df), the rename, the derived        *)
(* metrics (add_extra_columns), the column drop and the display formatting *)
(* (format_values), as process_financial_data of etl_pipeline.py chains    *)
(* them.  main.py's variant of format_values is modelled beside it.        *)
(*                                                                         *)
(* A mapping (a Python dict) is a function over strings; a DataFrame is a  *)
(* record [cols, rows]: the column names in order and the rows in order,   *)
(* each row a function from the column names to cells.                     *)
(***************************************************************************)
EXTENDS Integers, Sequences, FiniteSets, TLC

\* ------------------------------------------------------------------ bounds
\* SpecExtract: the longest fact list of the USD bucket.
MaxRecs == 3
\* SpecExtract and SpecMerge: the number of distinct period-end years.
NumYears == 2
\* SpecExtract: the reported values are 1..MaxVal.
MaxVal == 2
\* SpecMerge: the longest list of account series handed to merge_final_df.
NumSeries == 3
\* SpecMetrics: the most rows of the table handed to add_extra_columns.
MaxRows == 2

FirstYear == 2020
Years == FirstYear .. (FirstYear + NumYears - 1)

VARIABLES
    pc,            \* the stage of process_financial_data that runs next
    raised,        \* the exception that ended the run, or "none"
    json_file,     \* the raw facts document (company_data)
    account_list,  \* the accounts asked of clean_company_data
    company_dfs,   \* the list of per-account DataFrames (clean_df_list)
    result,        \* the table the stages pass on
    log,           \* history: the stages run so far, with what each saw
    num,           \* SpecFormat: the number handed to format_values
    shown          \* SpecFormat: what the two format_values returned

vars == <<pc, raised, json_file, account_list, company_dfs, result, log, num, shown>>

\* ------------------------------------------------------------------- cells
\* A cell is a number, NaN (pandas' null), an infinity, a ratio rounded to
\* two decimals (held in hundredths), or, after formatting, a display string.
NaN == [kind |-> "nan"]
Num(v) == [kind |-> "num", v |-> v]
Inf(neg) == [kind |-> "inf", neg |-> neg]
Dec2(h) == [kind |-> "dec2", h |-> h]

IsNum(c) == c.kind = "num"

\* ------------------------------------------------------------- dictionaries
EmptyMap == [k \in {} |-> 0]
HasKey(m, k) == k \in DOMAIN m

\* ------------------------------------------------------------- data frames
\* pd.DataFrame({})
EmptyDF == [cols |-> <<>>, rows |-> <<>>]

\* DataFrame.empty: no rows or no columns.
IsEmptyDF(df) == Len(df.rows) = 0 \/ Len(df.cols) = 0

ColSet(df) == {df.cols[i] : i \in 1..Len(df.cols)}
YearsOf(df) == {df.rows[i]["year"].v : i \in 1..Len(df.rows)}

\* ------------------------------------------------------------- extraction
\* pd.to_datetime(df["end"]).dt.year: the calendar year of the end date.
YearOfEnd(end) == end.year

\* df[df["fp"] == "FY"]
FilterFY(acc_data) == SelectSeq(acc_data, LAMBDA r : r.fp = "FY")

\* A bug the claims must notice: keep="first".
DropDuplicatesKeepFirst(recs) ==
    LET Keep(i) == \A j \in 1..(i - 1) : YearOfEnd(recs[j].end) # YearOfEnd(recs[i].end)
        F[i \in 0..Len(recs)] ==
            IF i = 0 THEN <<>>
            ELSE IF Keep(i) THEN Append(F[i - 1], recs[i]) ELSE F[i - 1]
    IN F[Len(recs)]

\* df.drop_duplicates(subset=["year"], keep="last"): a row stays when no later
\* row has its year; the rows that stay keep their order.
DropDuplicatesKeepLast(recs) ==
    LET Keep(i) == \A j \in (i + 1)..Len(recs) : YearOfEnd(recs[j].end) # YearOfEnd(recs[i].end)
        F[i \in 0..Len(recs)] ==
            IF i = 0 THEN <<>>
            ELSE IF Keep(i) THEN Append(F[i - 1], recs[i]) ELSE F[i - 1]
    IN F[Len(recs)]

\* df[["year", "val"]] renamed to ["year", account]
SeriesFrame(recs, account) ==
    [cols |-> <<"year", account>>,
     rows |-> [i \in 1..Len(recs) |->
                 ("year" :> Num(YearOfEnd(recs[i].end)) @@ account :> Num(recs[i].val))]]

\* json_file["facts"]["us-gaap"][account]["units"]["USD"] raises KeyError when
\* any key of the chain is missing.
HasUsdPath(doc, account) ==
    /\ HasKey(doc, "facts")
    /\ HasKey(doc["facts"], "us-gaap")
    /\ HasKey(doc["facts"]["us-gaap"], account)
    /\ HasKey(doc["facts"]["us-gaap"][account], "units")
    /\ HasKey(doc["facts"]["us-gaap"][account]["units"], "USD")

\* The body of the loop of clean_company_data for one account.  A KeyError
\* (a missing key of the chain, or df["fp"] on the frame of an empty fact
\* list, which has no columns) is caught and gives pd.DataFrame({}).
AccountFrame(doc, account) ==
    IF ~HasUsdPath(doc, account) THEN EmptyDF
    ELSE LET acc_data == doc["facts"]["us-gaap"][account]["units"]["USD"]
         IN IF Len(acc_data) = 0 THEN EmptyDF
            ELSE SeriesFrame(DropDuplicatesKeepLast(FilterFY(acc_data)), account)

clean_company_data(doc, accounts) ==
    [i \in 1..Len(accounts) |-> AccountFrame(doc, accounts[i])]

\* ------------------------------------------------------------------- merge
RECURSIVE SortSet(_)
SortSet(S) ==
    IF S = {} THEN <<>>
    ELSE LET m == CHOOSE x \in S : \A y \in S : x <= y
         IN <<m>> \o SortSet(S \ {m})

RECURSIVE Concat(_)
Concat(ss) == IF Len(ss) = 0 THEN <<>> ELSE Head(ss) \o Concat(Tail(ss))

NonKeyCols(df) == SelectSeq(df.cols, LAMBDA c : c # "year")
NullRow(cols) == [c \in {cols[i] : i \in 1..Len(cols)} |-> NaN]

\* A bug the claims must notice: how="inner", which keeps only the years
\* both frames have.
MergeInner(left, right) ==
    LET RowsOf(df, y) == SelectSeq(df.rows, LAMBDA r : r["year"].v = y)
        RowsFor(y) ==
            LET L == RowsOf(left, y)
                R == RowsOf(right, y)
            IN [k \in 1..(Len(L) * Len(R)) |->
                   L[((k - 1) \div Len(R)) + 1] @@ R[((k - 1) % Len(R)) + 1]]
        keys == SortSet(YearsOf(left) \cap YearsOf(right))
    IN [cols |-> left.cols \o NonKeyCols(right),
        rows |-> Concat([i \in 1..Len(keys) |-> RowsFor(keys[i])])]

\* pd.merge(left, right, on="year", how="outer"): one row per pair of a left
\* and a right row of the same year, a row padded with NaN for a year only
\* one side has, the rows ordered by the year.  The columns other than "year"
\* are those of the left frame, then those of the right frame (the accounts
\* of a run are distinct, so no suffix is added).
MergeOuter(left, right) ==
    LET RowsOf(df, y) == SelectSeq(df.rows, LAMBDA r : r["year"].v = y)
        RowsFor(y) ==
            LET L == RowsOf(left, y)
                R == RowsOf(right, y)
            IN IF Len(R) = 0
                 THEN [k \in 1..Len(L) |-> L[k] @@ NullRow(NonKeyCols(right))]
               ELSE IF Len(L) = 0
                 THEN [k \in 1..Len(R) |-> R[k] @@ NullRow(NonKeyCols(left))]
               ELSE [k \in 1..(Len(L) * Len(R)) |->
                        L[((k - 1) \div Len(R)) + 1] @@ R[((k - 1) % Len(R)) + 1]]
        keys == SortSet(YearsOf(left) \cup YearsOf(right))
    IN [cols |-> left.cols \o NonKeyCols(right),
        rows |-> Concat([i \in 1..Len(keys) |-> RowsFor(keys[i])])]

\* cleaned_df_list = [df for df in df_list if not df.empty]
NonEmptyFrames(df_list) == SelectSeq(df_list, LAMBDA df : ~IsEmptyDF(df))

\* merged_df = cleaned_df_list[0], then the fold of pd.merge over the rest.
MergeFold(frames) ==
    LET F[i \in 1..Len(frames)] ==
            IF i = 1 THEN frames[1] ELSE MergeOuter(F[i - 1], frames[i])
    IN F[Len(frames)]

\* merge_final_df: cleaned_df_list[0] raises IndexError on the empty list.
MergeRaises(df_list) == Len(NonEmptyFrames(df_list)) = 0
merge_final_df(df_list) == MergeFold(NonEmptyFrames(df_list))

\* ------------------------------------------------------------------ rename
accounts_to_rename ==
    ("NetCashProvidedByUsedInOperatingActivities" :> "CashFlows"
     @@ "CashAndCashEquivalentsAtCarryingValue" :> "Cash")

RenameCol(c) == IF c \in DOMAIN accounts_to_rename THEN accounts_to_rename[c] ELSE c

\* The source column of a column of the renamed table.
RenamedFrom(cols, c) == CHOOSE i \in 1..Len(cols) : RenameCol(cols[i]) = c

\* result.rename(columns=accounts_to_rename): a name of the map that is no
\* column is ignored.
RenameColumns(df) ==
    LET newcols == [i \in 1..Len(df.cols) |-> RenameCol(df.cols[i])]
        names == {newcols[i] : i \in 1..Len(newcols)}
    IN [cols |-> newcols,
        rows |-> [k \in 1..Len(df.rows) |->
                    [c \in names |-> df.rows[k][df.cols[RenamedFrom(df.cols, c)]]]]]

\* ----------------------------------------------------------------- metrics
EARNINGS_MULTIPLIER == 20

Abs(x) == IF x < 0 THEN -x ELSE x

\* Series arithmetic, cell by cell: NaN in, NaN out.
CellAdd(a, b) == IF IsNum(a) /\ IsNum(b) THEN Num(a.v + b.v) ELSE NaN
CellSub(a, b) == IF IsNum(a) /\ IsNum(b) THEN Num(a.v - b.v) ELSE NaN
CellScale(k, a) == IF IsNum(a) THEN Num(k * a.v) ELSE NaN

\* The nearest integer to n / d (n >= 0, d > 0), a tie going to the even one.
RoundHalfEven(n, d) ==
    LET q == n \div d
        r == n % d
    IN IF 2 * r < d THEN q
       ELSE IF 2 * r > d THEN q + 1
       ELSE IF q % 2 = 0 THEN q ELSE q + 1

\* round(a / b, 2) of two numeric Series: float division, where x / 0 is an
\* infinity of the sign of x and 0 / 0 is NaN, then numpy's round to two
\* decimals (held in hundredths).
CellRatio2(a, b) ==
    IF ~(IsNum(a) /\ IsNum(b)) THEN NaN
    ELSE IF b.v = 0
        THEN (IF a.v = 0 THEN NaN ELSE Inf(a.v < 0))
    ELSE LET h == RoundHalfEven(100 * Abs(a.v), Abs(b.v))
         IN Dec2(IF (a.v < 0) # (b.v < 0) THEN -h ELSE h)

\* cleaned_df[name] = <a Series>: a new last column, or the column replaced.
WithColumn(df, name, series) ==
    [cols |-> IF name \in ColSet(df) THEN df.cols ELSE Append(df.cols, name),
     rows |-> [k \in 1..Len(df.rows) |-> (name :> series[k]) @@ df.rows[k]]]

\* A bug the claims must notice: main.py's add_valuation1_col.
Valuation1(row) == CellAdd(row["CashFlows"], row["Cash"])

\* (EARNINGS_MULTIPLIER * CashFlows) + Cash - LongTermDebt
Valuation(row) ==
    CellSub(CellAdd(CellScale(EARNINGS_MULTIPLIER, row["CashFlows"]), row["Cash"]),
            row["LongTermDebt"])

ValuationReads == {"CashFlows", "Cash", "LongTermDebt"}
RatioReads == {"AssetsCurrent", "Liabilities", "CashFlows"}

AddValuation(df) ==
    WithColumn(df, "valuation", [k \in 1..Len(df.rows) |-> Valuation(df.rows[k])])
AddAcL(df) ==
    WithColumn(df, "ac/l",
               [k \in 1..Len(df.rows) |->
                  CellRatio2(df.rows[k]["AssetsCurrent"], df.rows[k]["Liabilities"])])
AddCfL(df) ==
    WithColumn(df, "cf/l",
               [k \in 1..Len(df.rows) |->
                  CellRatio2(df.rows[k]["CashFlows"], df.rows[k]["Liabilities"])])

\* add_extra_columns: cleaned_df["X"] raises KeyError when X is no column.
MetricsRaises(df) == ~((ValuationReads \cup RatioReads) \subseteq ColSet(df))
add_extra_columns(df) == AddCfL(AddAcL(AddValuation(df)))

\* The table as add_extra_columns leaves it when it raises: it assigns in
\* place, so the valuation column is there when a ratio's operand is missing.
MetricsPartial(df) ==
    IF ValuationReads \subseteq ColSet(df) THEN AddValuation(df) ELSE df

\* -------------------------------------------------------------------- drop
accounts_to_drop == <<"Revenues", "AssetsCurrent", "Liabilities">>
DropSet == {accounts_to_drop[i] : i \in 1..Len(accounts_to_drop)}

\* result.drop(columns=accounts_to_drop) raises KeyError when a label is no
\* column.
DropRaises(df) == ~(DropSet \subseteq ColSet(df))
DropColumns(df) ==
    LET kept == SelectSeq(df.cols, LAMBDA c : c \notin DropSet)
    IN [cols |-> kept,
        rows |-> [k \in 1..Len(df.rows) |->
                    [c \in {kept[i] : i \in 1..Len(kept)} |-> df.rows[k][c]]]]

\* ------------------------------------------------------------------ format
\* A number too wide for a machine word is held as sign, millions and the
\* rest: its magnitude is hi * 10^6 + lo with 0 <= lo < 10^6.
Million == 1000000
Big(neg, hi, lo) == [kind |-> "big", neg |-> neg, hi |-> hi, lo |-> lo]
ToBig(v) == Big(v < 0, Abs(v) \div Million, Abs(v) % Million)

\* The display strings: f"{num / threshold:.2f}{suffix}" holds the quotient
\* in hundredths with its sign; str(num) holds the number it prints.
Suffixed(neg, h, suffix) == [kind |-> "fmt", neg |-> neg, h |-> h, suffix |-> suffix]
Str(c) == [kind |-> "str", of |-> c]

\* A bug the claims must notice: the thresholds tried in ascending order.
format_tuples_ascending ==
    << [millions |-> 1, suffix |-> "M"],
       [millions |-> 1000, suffix |-> "B"],
       [millions |-> 1000000, suffix |-> "T"] >>

\* format_tuples = [(1e12, "T"), (1e9, "B"), (1e6, "M")], each threshold in
\* millions: abs(num) >= threshold exactly when hi >= threshold / 10^6.
format_tuples ==
    << [millions |-> 1000000, suffix |-> "T"],
       [millions |-> 1000, suffix |-> "B"],
       [millions |-> 1, suffix |-> "M"] >>

\* "{:.2f}" of (hi * 10^6 + lo) / (m * 10^6), in hundredths: the nearest
\* hundredth.  An exact tie is decided by the binary value of the float
\* quotient (1015000 / 1e6 prints 1.01, 1375000 / 1e6 prints 1.38): `up`
\* stands for that outcome.
Hundredths(hi, lo, m, up) ==
    LET q == (hi * 100) \div m
        rem == (hi * 100) % m
        R == rem + (lo \div 10000)
        lr == lo % 10000
        base == q + (R \div m)
        diff == m - 2 * (R % m)
        cmp == IF diff <= -1 THEN 1
               ELSE IF diff = 0 THEN (IF lr > 0 THEN 1 ELSE 0)
               ELSE IF diff = 1
                   THEN (IF 2 * lr > 10000 THEN 1 ELSE IF 2 * lr < 10000 THEN -1 ELSE 0)
               ELSE -1
    IN IF cmp > 0 \/ (cmp = 0 /\ up) THEN base + 1 ELSE base

\* The first threshold of `tuples` that abs(num) reaches, or 0.
FirstReached(b, tuples) ==
    LET hit == {i \in 1..Len(tuples) : b.hi >= tuples[i].millions}
    IN IF hit = {} THEN 0 ELSE CHOOSE i \in hit : \A j \in hit : i <= j

FormatBig(b, up) ==
    LET i == FirstReached(b, format_tuples)
    IN IF i = 0 THEN <<>>
       ELSE <<Suffixed(b.neg, Hundredths(b.hi, b.lo, format_tuples[i].millions, up),
                       format_tuples[i].suffix)>>

\* What both format_values do above the thresholds, by the kind of cell
\* (<<>> when no threshold is reached): abs(nan) >= t is False; abs(inf) is
\* above every threshold and inf / 1e12 prints "inf"; a ratio is held in
\* hundredths, which fit a machine word only below 1e9.
FormatAbove(c, up) ==
    CASE c.kind = "big" -> FormatBig(c, up)
      [] c.kind = "num" -> FormatBig(ToBig(c.v), up)
      [] c.kind = "dec2" ->
            IF Abs(c.h) >= 100 * Million
                THEN <<Suffixed(c.h < 0, RoundHalfEven(Abs(c.h), Million), "M")>>
            ELSE <<>>
      [] c.kind = "inf" ->
            <<[kind |-> "fmtinf", neg |-> c.neg, suffix |-> format_tuples[1].suffix]>>
      [] c.kind = "nan" -> <<>>

\* etl_pipeline.py: return str(num) below the thresholds.
format_values(c, up) ==
    LET above == FormatAbove(c, up)
    IN IF above # <<>> THEN above[1] ELSE Str(c)

\* main.py: return num below the thresholds.
main_format_values(c, up) ==
    LET above == FormatAbove(c, up)
    IN IF above # <<>> THEN above[1] ELSE c

\* merged_df.map(format_values): every cell, the year's too.
_format_values(df, up) ==
    [cols |-> df.cols,
     rows |-> [k \in 1..Len(df.rows) |->
                 [c \in ColSet(df) |-> format_values(df.rows[k][c], up)]]]

\* ------------------------------------------------------------------ stages
\* A bug the claims must notice: the table formatted before the drop.
StageAfterFormatFirst(s) ==
    CASE s = "fetch" -> "clean"
      [] s = "clean" -> "merge"
      [] s = "merge" -> "rename"
      [] s = "rename" -> "metrics"
      [] s = "metrics" -> "format"
      [] s = "format" -> "drop"
      [] s = "drop" -> "done"

\* process_financial_data: the order of the stages.
StageAfter(s) ==
    CASE s = "fetch" -> "clean"
      [] s = "clean" -> "merge"
      [] s = "merge" -> "rename"
      [] s = "rename" -> "metrics"
      [] s = "metrics" -> "drop"
      [] s = "drop" -> "format"
      [] s = "format" -> "done"

\* What log keeps of a stage: its name, and the columns and the number of
\* rows of the table it got.
Event(stage, df) == [stage |-> stage, cols |-> ColSet(df), nrows |-> Len(df.rows)]

NoTable == EmptyDF

\* clean_df_list = clean_company_data(company_data, specified_accounts)
CleanStep ==
    /\ pc = "clean" /\ raised = "none"
    /\ company_dfs' = clean_company_data(json_file, account_list)
    /\ pc' = StageAfter("clean")
    /\ log' = Append(log, Event("clean", NoTable))
    /\ UNCHANGED <<raised, json_file, account_list, result, num, shown>>

\* result = merge_final_df(clean_df_list)
MergeStep ==
    /\ pc = "merge" /\ raised = "none"
    /\ log' = Append(log, Event("merge", NoTable))
    /\ IF MergeRaises(company_dfs)
         THEN raised' = "IndexError" /\ UNCHANGED <<pc, result>>
         ELSE /\ result' = merge_final_df(company_dfs)
              /\ pc' = StageAfter("merge")
              /\ UNCHANGED raised
    /\ UNCHANGED <<json_file, account_list, company_dfs, num, shown>>

\* result = result.rename(columns=accounts_to_rename)
RenameStep ==
    /\ pc = "rename" /\ raised = "none"
    /\ log' = Append(log, Event("rename", result))
    /\ result' = RenameColumns(result)
    /\ pc' = StageAfter("rename")
    /\ UNCHANGED <<raised, json_file, account_list, company_dfs, num, shown>>

\* result = add_extra_columns(result)
MetricsStep ==
    /\ pc = "metrics" /\ raised = "none"
    /\ log' = Append(log, Event("metrics", result))
    /\ IF MetricsRaises(result)
         THEN raised' = "KeyError" /\ result' = MetricsPartial(result) /\ UNCHANGED pc
         ELSE /\ result' = add_extra_columns(result)
              /\ pc' = StageAfter("metrics")
              /\ UNCHANGED raised
    /\ UNCHANGED <<json_file, account_list, company_dfs, num, shown>>

\* result = result.drop(columns=accounts_to_drop)
DropStep ==
    /\ pc = "drop" /\ raised = "none"
    /\ log' = Append(log, Event("drop", result))
    /\ IF DropRaises(result)
         THEN raised' = "KeyError" /\ UNCHANGED <<pc, result>>
         ELSE /\ result' = DropColumns(result)
              /\ pc' = StageAfter("drop")
              /\ UNCHANGED raised
    /\ UNCHANGED <<json_file, account_list, company_dfs, num, shown>>

\* result_df = _format_values(result)
FormatStep ==
    /\ pc = "format" /\ raised = "none"
    /\ log' = Append(log, Event("format", result))
    /\ \E up \in BOOLEAN : result' = _format_values(result, up)
    /\ pc' = StageAfter("format")
    /\ UNCHANGED <<raised, json_file, account_list, company_dfs, num, shown>>

\* ------------------------------------------------------------------- Spec
\* process_financial_data, from the fetch to the returned table.
specified_accounts ==
    << "NetCashProvidedByUsedInOperatingActivities",
       "CashAndCashEquivalentsAtCarryingValue",
       "Liabilities",
       "AssetsCurrent",
       "Revenues",
       "LongTermDebt" >>
AccountNames == {specified_accounts[i] : i \in 1..Len(specified_accounts)}

Fact(fp, y, v) == [fp |-> fp, end |-> [year |-> y, month |-> 12, day |-> 31], val |-> v]
AccountObject(unit, recs) == ("units" :> (unit :> recs))
DocOf(accounts) == ("facts" :> ("us-gaap" :> accounts))

\* The value an account reports in the documents drawn for Spec.
SampleVal(a) ==
    CASE a = "NetCashProvidedByUsedInOperatingActivities" -> 100
      [] a = "CashAndCashEquivalentsAtCarryingValue" -> 50
      [] a = "LongTermDebt" -> 30
      [] a = "Liabilities" -> 0
      [] a = "AssetsCurrent" -> 6
      [] a = "Revenues" -> 2500000

\* How a document may report an account: not at all, in euros only, with
\* quarterly records only, with one annual record, or over two years with a
\* restated first year and a quarterly record between.
Reportings == {"absent", "eur", "quarterly", "annual", "restated"}
Reported(a, how) ==
    CASE how = "eur" -> AccountObject("EUR", <<Fact("FY", FirstYear, SampleVal(a))>>)
      [] how = "quarterly" -> AccountObject("USD", <<Fact("Q1", FirstYear, SampleVal(a))>>)
      [] how = "annual" -> AccountObject("USD", <<Fact("FY", FirstYear + 1, SampleVal(a))>>)
      [] how = "restated" ->
            AccountObject("USD", << Fact("FY", FirstYear, SampleVal(a) + 1),
                                    Fact("Q1", FirstYear + 1, SampleVal(a) + 2),
                                    Fact("FY", FirstYear, SampleVal(a)),
                                    Fact("FY", FirstYear + 1, SampleVal(a) + 3) >>)

AccountsOf(how) == [a \in {x \in AccountNames : how[x] # "absent"} |-> Reported(a, how[a])]

\* What fetch_sec_api may return: {} when the request fails, else the JSON of
\* the response, with or without "facts", and under either taxonomy or both.
Responses ==
    {EmptyMap, ("entityName" :> EmptyMap), ("facts" :> EmptyMap)}
    \cup {("facts" :> ("ifrs-full" :> AccountsOf([a \in AccountNames |-> "annual"])))}
    \cup {("facts" :> ("us-gaap" :> AccountsOf([a \in AccountNames |-> "annual"])
                       @@ "ifrs-full" :> AccountsOf([a \in AccountNames |-> "restated"])))}
    \cup {DocOf(AccountsOf(how)) : how \in [AccountNames -> Reportings]}

Init ==
    /\ pc = "fetch" /\ raised = "none"
    /\ json_file = EmptyMap
    /\ account_list = specified_accounts
    /\ company_dfs = <<>>
    /\ result = NoTable
    /\ log = <<>>
    /\ num = 0
    /\ shown = <<>>

\* company_data = fetch_sec_api(comp_cik)
FetchStep ==
    /\ pc = "fetch" /\ raised = "none"
    /\ \E doc \in Responses : json_file' = doc
    /\ pc' = StageAfter("fetch")
    /\ log' = Append(log, Event("fetch", NoTable))
    /\ UNCHANGED <<raised, account_list, company_dfs, result, num, shown>>

Next ==
    \/ FetchStep
    \/ CleanStep
    \/ MergeStep
    \/ RenameStep
    \/ MetricsStep
    \/ DropStep
    \/ FormatStep

Spec == Init /\ [][Next]_vars

\* ------------------------------------------------------------ SpecExtract
\* The fact records of one USD bucket: a fiscal period tag, an end date and
\* a value.
FactRecords == {Fact(f, y, v) : f \in {"FY", "Q1"}, y \in Years, v \in 1..MaxVal}

RECURSIVE SeqsUpTo(_, _)
SeqsUpTo(S, n) ==
    IF n = 0 THEN {<<>>}
    ELSE LET shorter == SeqsUpTo(S, n - 1)
         IN shorter \cup {Append(s, x) : s \in {t \in shorter : Len(t) = n - 1}, x \in S}

InitExtract ==
    /\ pc = "clean" /\ raised = "none"
    /\ account_list = <<"Liabilities">>
    /\ \E recs \in SeqsUpTo(FactRecords, MaxRecs) :
          json_file = DocOf("Liabilities" :> AccountObject("USD", recs))
    /\ company_dfs = <<>>
    /\ result = NoTable
    /\ log = <<>>
    /\ num = 0
    /\ shown = <<>>

SpecExtract == InitExtract /\ [][CleanStep]_vars

\* What SpecExtract extracted, and from which fact list.
Extracted == company_dfs[1]
FactList == json_file["facts"]["us-gaap"]["Liabilities"]["units"]["USD"]
LastFY(y) ==
    CHOOSE i \in 1..Len(FactList) :
        /\ FactList[i].fp = "FY" /\ FactList[i].end.year = y
        /\ \A j \in (i + 1)..Len(FactList) :
              ~(FactList[j].fp = "FY" /\ FactList[j].end.year = y)
FYYears == {FactList[i].end.year : i \in {j \in 1..Len(FactList) : FactList[j].fp = "FY"}}

\* C1: extraction yields at most one value per year, the years are exactly the
\* end-date years of the "FY" records, and the value of a year is the value of
\* the last "FY" record in document order that ends in it; a record with
\* another fiscal period tag contributes neither a year nor a value.
C1_LastAnnualRecordWins ==
    (pc = "merge") =>
        /\ \A i, j \in 1..Len(Extracted.rows) :
              Extracted.rows[i]["year"] = Extracted.rows[j]["year"] => i = j
        /\ YearsOf(Extracted) = FYYears
        /\ \A i \in 1..Len(Extracted.rows) :
              Extracted.rows[i]["Liabilities"] =
                  Num(FactList[LastFY(Extracted.rows[i]["year"].v)].val)

\* A fact list where a year has two "FY" records of different values and a
\* quarterly record of a year no "FY" record ends in.
C1_Witness ==
    /\ pc = "merge"
    /\ \E i, j \in 1..Len(FactList) :
          /\ i < j
          /\ FactList[i].fp = "FY" /\ FactList[j].fp = "FY"
          /\ FactList[i].end.year = FactList[j].end.year
          /\ FactList[i].val # FactList[j].val
    /\ \E k \in 1..Len(FactList) :
          FactList[k].fp = "Q1" /\ FactList[k].end.year \notin FYYears

\* ------------------------------------------------------- claims under Spec
Stages(l) == [i \in 1..Len(l) |-> l[i].stage]
IsPrefix(a, b) == Len(a) <= Len(b) /\ \A i \in 1..Len(a) : a[i] = b[i]
EventsOf(stage) == {i \in 1..Len(log) : log[i].stage = stage}

\* The document has the expected top-level structure.
WellFormed(doc) == HasKey(doc, "facts") /\ HasKey(doc["facts"], "us-gaap")
SomeSeries(doc) == \E a \in AccountNames : ~IsEmptyDF(AccountFrame(doc, a))

\* C5: a run on a well-formed document from which at least one requested
\* account yields a non-empty series never raises, whichever accounts are
\* missing: it goes on to return a table.
C5_MissingAccountsAbsorbed ==
    (pc # "fetch" /\ WellFormed(json_file) /\ SomeSeries(json_file)) => raised = "none"

\* C8: the stages run in the order merge, rename, metrics, drop, format; in a
\* completed run the dropped columns were columns of the table the metrics
\* stage got, are no columns of the returned table nor of the table any stage
\* after the drop got, and format is the last stage.
PipelineOrder == <<"fetch", "clean", "merge", "rename", "metrics", "drop", "format">>
C8_StageOrder ==
    /\ IsPrefix(Stages(log), PipelineOrder)
    /\ (pc = "done") =>
          /\ Stages(log) = PipelineOrder
          /\ \A i \in EventsOf("metrics") : DropSet \subseteq log[i].cols
          /\ DropSet \cap ColSet(result) = {}
          /\ \A i \in EventsOf("drop") : \A j \in (i + 1)..Len(log) :
                DropSet \cap log[j].cols = {}
          /\ \A i \in EventsOf("format") : i = Len(log)

\* A completed run whose table had the three dropped columns and whose
\* returned cells are display strings.
C8_Witness ==
    /\ pc = "done" /\ raised = "none"
    /\ Len(log) = Len(PipelineOrder)
    /\ \E k \in 1..Len(result.rows) : result.rows[k]["valuation"].kind = "str"
    /\ ColSet(result) = {"year", "CashFlows", "Cash", "LongTermDebt", "valuation", "ac/l", "cf/l"}

\* C9: a document without the top-level "facts" never gets past extraction:
\* the run ends there in a MalformedDocument error.
C9_MalformedDocumentIsFatal ==
    (pc # "fetch" /\ ~HasKey(json_file, "facts")) =>
        /\ pc = "clean"
        /\ raised \in {"none", "MalformedDocument"}

\* C10: the drop stage never raises, and the table after it has the columns
\* it got less the configured drop columns.
C10_MissingDropColumnSkipped ==
    \A i \in EventsOf("drop") :
        /\ raised = "none"
        /\ ColSet(result) = log[i].cols \ DropSet

\* -------------------------------------------------------------- SpecMerge
\* merge_final_df on a list of up to NumSeries frames, each what extraction
\* can give for its account: pd.DataFrame({}), or the frame of annual records
\* of distinct years in document order (none: a frame of no rows).
DistinctYearSeqs ==
    {ys \in SeqsUpTo(Years, NumYears) : \A i, j \in 1..Len(ys) : ys[i] = ys[j] => i = j}
SeriesValue(i, y) == 10 * i + (y - FirstYear) + 1
FramesOf(i) ==
    {EmptyDF} \cup
    {SeriesFrame([k \in 1..Len(ys) |-> Fact("FY", ys[k], SeriesValue(i, ys[k]))],
                 specified_accounts[i]) : ys \in DistinctYearSeqs}

RECURSIVE FrameLists(_)
FrameLists(n) ==
    IF n = 0 THEN {<<>>}
    ELSE {Append(dfs, df) : dfs \in FrameLists(n - 1), df \in FramesOf(n)}

InitMerge ==
    /\ pc = "merge" /\ raised = "none"
    /\ json_file = EmptyMap
    /\ \E n \in 0..NumSeries :
          /\ account_list = SubSeq(specified_accounts, 1, n)
          /\ company_dfs \in FrameLists(n)
    /\ result = NoTable
    /\ log = <<>>
    /\ num = 0
    /\ shown = <<>>

SpecMerge == InitMerge /\ [][MergeStep]_vars

Merged == raised = "none" /\ Len(log) = 1
SeriesIndexes == {i \in 1..Len(company_dfs) : ~IsEmptyDF(company_dfs[i])}
RowOfYear(df, y) == CHOOSE k \in 1..Len(df.rows) : df.rows[k]["year"] = Num(y)

\* C2: when some series is non-empty, the merged table has exactly one row
\* per year of the union of the years of the series, its columns are the year
\* and the accounts of the non-empty series, and the cell of a year and an
\* account is the series' value when the series has the year, else null.
C2_OuterJoinUnion ==
    (Len(log) = 1 /\ SeriesIndexes # {}) =>
        /\ raised = "none"
        /\ YearsOf(result) = UNION {YearsOf(company_dfs[i]) : i \in 1..Len(company_dfs)}
        /\ \A j, k \in 1..Len(result.rows) :
              result.rows[j]["year"] = result.rows[k]["year"] => j = k
        /\ ColSet(result) = {"year"} \cup {account_list[i] : i \in SeriesIndexes}
        /\ \A i \in SeriesIndexes : \A k \in 1..Len(result.rows) :
              LET y == result.rows[k]["year"].v
                  df == company_dfs[i]
              IN result.rows[k][account_list[i]] =
                     IF y \in YearsOf(df)
                         THEN df.rows[RowOfYear(df, y)][account_list[i]]
                     ELSE NaN

\* An empty first series, and two series that share no year.
C2_Witness ==
    /\ Merged
    /\ Len(company_dfs) >= 3
    /\ IsEmptyDF(company_dfs[1])
    /\ \E i, j \in SeriesIndexes :
          /\ i # j
          /\ YearsOf(company_dfs[i]) \cap YearsOf(company_dfs[j]) = {}
    /\ \E k \in 1..Len(result.rows) : \E c \in ColSet(result) : result.rows[k][c] = NaN

\* C3: when every series is empty, the merge ends in the EmptyResult error,
\* not in an IndexError.
C3_AllEmptyIsEmptyResult ==
    (Len(log) = 1 /\ SeriesIndexes = {}) => raised = "EmptyResult"

\* ------------------------------------------------------------ SpecMetrics
\* add_extra_columns on a table of up to MaxRows rows with every column of a
\* merged and renamed table: a first row of any operands, null ones too, and
\* sibling rows.
MetricsCols ==
    <<"year", "CashFlows", "Cash", "Liabilities", "AssetsCurrent", "Revenues", "LongTermDebt">>
Cells(S) == {NaN} \cup {Num(v) : v \in S}
MetricRow(y, cf, cash, liab, ac, ltd) ==
    ("year" :> Num(y) @@ "CashFlows" :> cf @@ "Cash" :> cash @@ "Liabilities" :> liab
     @@ "AssetsCurrent" :> ac @@ "Revenues" :> Num(7) @@ "LongTermDebt" :> ltd)
FirstRows ==
    {MetricRow(FirstYear, cf, cash, liab, ac, ltd) :
        cf \in Cells({-100, 0, 100}), cash \in Cells({0, 50}), liab \in Cells({-8, 0, 8}),
        ac \in Cells({-6, 0, 6}), ltd \in Cells({0, 30})}
SiblingRows(y) ==
    {MetricRow(y, Num(100), Num(50), Num(8), Num(6), Num(30)),
     MetricRow(y, Num(3), NaN, Num(0), Num(6), Num(1))}

RECURSIVE RowLists(_)
RowLists(n) ==
    IF n = 1 THEN {<<first>> : first \in FirstRows}
    ELSE {Append(rows, row) : rows \in RowLists(n - 1), row \in SiblingRows(FirstYear + n - 1)}

InitMetrics ==
    /\ pc = "metrics" /\ raised = "none"
    /\ json_file = EmptyMap
    /\ account_list = specified_accounts
    /\ company_dfs = <<>>
    /\ \E n \in 1..MaxRows : \E rows \in RowLists(n) :
          result = [cols |-> MetricsCols, rows |-> rows]
    /\ log = <<>>
    /\ num = 0
    /\ shown = <<>>

SpecMetrics == InitMetrics /\ [][MetricsStep]_vars

MetricsDone == Len(log) = 1 /\ log[1].stage = "metrics"
NoLiabilities(row) == row["Liabilities"] \in {NaN, Num(0)}

\* The table add_extra_columns got, read back from the one it returned, and
\* that table without the rows whose Liabilities is zero or null.
MetricsInput == [cols |-> MetricsCols,
                 rows |-> [k \in 1..Len(result.rows) |->
                             [c \in ColSet([cols |-> MetricsCols]) |-> result.rows[k][c]]]]
WithLiabilities(df) ==
    [cols |-> df.cols, rows |-> SelectSeq(df.rows, LAMBDA r : ~NoLiabilities(r))]

\* C4: a row whose Liabilities is zero or null is kept and gets null in ac/l
\* and cf/l, nothing is raised, and the other rows get what they would get
\* were that row not in the table.
C4_ZeroLiabilitiesGiveNull ==
    MetricsDone =>
        /\ raised = "none"
        /\ Len(result.rows) = log[1].nrows
        /\ \A k \in 1..Len(result.rows) :
              NoLiabilities(result.rows[k]) =>
                  result.rows[k]["ac/l"] = NaN /\ result.rows[k]["cf/l"] = NaN
        /\ WithLiabilities(result) = add_extra_columns(WithLiabilities(MetricsInput))

\* C7: valuation is 20 * CashFlows + Cash - LongTermDebt in a row where the
\* three are numbers, and null in a row where one of them is null; nothing is
\* raised.
C7_Valuation ==
    MetricsDone =>
        /\ raised = "none"
        /\ \A k \in 1..Len(result.rows) :
              LET row == result.rows[k]
              IN IF IsNum(row["CashFlows"]) /\ IsNum(row["Cash"]) /\ IsNum(row["LongTermDebt"])
                   THEN row["valuation"] =
                          Num(20 * row["CashFlows"].v + row["Cash"].v - row["LongTermDebt"].v)
                   ELSE row["valuation"] = NaN

\* The row CashFlows=100, Cash=50, LongTermDebt=30 valued 2020, beside a row
\* with a null operand.
C7_Witness ==
    /\ MetricsDone
    /\ \E k \in 1..Len(result.rows) :
          /\ result.rows[k]["CashFlows"] = Num(100)
          /\ result.rows[k]["Cash"] = Num(50)
          /\ result.rows[k]["LongTermDebt"] = Num(30)
          /\ result.rows[k]["valuation"] = Num(2020)
    /\ \E k \in 1..Len(result.rows) :
          result.rows[k]["Cash"] = NaN /\ result.rows[k]["valuation"] = NaN

\* ------------------------------------------------------------- SpecFormat
\* The two format_values on one number: the magnitudes around each threshold,
\* the documented examples, and numbers whose quotient is an exact tie.
HiSamples == {0, 1, 7, 999, 1000, 4560, 7890, 999999, 1000000, 1230000}
LoSamples == {0, 123, 5000, 15000, 890000, 999999}
FormatInputs ==
    {Big(neg, hi, lo) : neg \in BOOLEAN, hi \in HiSamples, lo \in LoSamples}
    \ {Big(TRUE, 0, 0)}

InitFormat ==
    /\ pc = "format_values" /\ raised = "none"
    /\ json_file = EmptyMap
    /\ account_list = <<>>
    /\ company_dfs = <<>>
    /\ result = NoTable
    /\ log = <<>>
    /\ num \in FormatInputs
    /\ shown = <<>>

\* format_values(num), as etl_pipeline.py and as main.py define it.
FormatValuesCall ==
    /\ pc = "format_values"
    /\ \E up \in BOOLEAN :
          shown' = [etl |-> format_values(num, up), main |-> main_format_values(num, up)]
    /\ pc' = "returned"
    /\ UNCHANGED <<raised, json_file, account_list, company_dfs, result, log, num>>

SpecFormat == InitFormat /\ [][FormatValuesCall]_vars

\* The suffix the claim gives a magnitude, and its threshold in millions.
SuffixOf(b) ==
    IF b.hi >= 1000000 THEN "T" ELSE IF b.hi >= 1000 THEN "B" ELSE IF b.hi >= 1 THEN "M" ELSE ""
MillionsOf(suffix) == CASE suffix = "T" -> 1000000 [] suffix = "B" -> 1000 [] suffix = "M" -> 1

\* h hundredths is num / (m * 10^6) to two decimals: h * m * 10^4 is within
\* m * 5000 of the magnitude hi * 10^6 + lo.  The difference is held as
\* millions and rest, so that no product leaves the machine word.
NearestHundredth(b, h, m) ==
    LET a == h * m
        dh0 == b.hi - (a \div 100)
        dl0 == b.lo - (a % 100) * 10000
        dh == IF dl0 < 0 THEN dh0 - 1 ELSE dh0
        dl == IF dl0 < 0 THEN dl0 + Million ELSE dl0
        \* the negated difference, normalised the same way
        nh == IF dl = 0 THEN -dh ELSE -dh - 1
        nl == IF dl = 0 THEN 0 ELSE Million - dl
        \* m * 5000, as millions and rest
        kh == m \div 200
        kl == (m % 200) * 5000
        AtMost(xh, xl) == xh < kh \/ (xh = kh /\ xl <= kl)
    IN AtMost(dh, dl) /\ AtMost(nh, nl)

IsSuffixed(s, b) ==
    /\ s.kind = "fmt"
    /\ s.suffix = SuffixOf(b)
    /\ s.neg = b.neg
    /\ NearestHundredth(b, s.h, MillionsOf(s.suffix))

TaxonomyOrder == <<"us-gaap", "ifrs-full">>
PresentTaxonomies(doc) ==
    {i \in 1..Len(TaxonomyOrder) : HasKey(doc, "facts") /\ HasKey(doc["facts"], TaxonomyOrder[i])}
FirstTaxonomy(doc) ==
    TaxonomyOrder[CHOOSE i \in PresentTaxonomies(doc) : \A j \in PresentTaxonomies(doc) : i <= j]

\* The account has a USD bucket with an annual record under the taxonomy.
AnnualUnder(doc, taxonomy, account) ==
    LET accounts == doc["facts"][taxonomy]
    IN /\ HasKey(accounts, account)
       /\ HasKey(accounts[account], "units")
       /\ HasKey(accounts[account]["units"], "USD")
       /\ \E i \in 1..Len(accounts[account]["units"]["USD"]) :
             accounts[account]["units"]["USD"][i].fp = "FY"

\* The values of the annual records of the account under the taxonomy.
AnnualValues(doc, taxonomy, account) ==
    LET recs == doc["facts"][taxonomy][account]["units"]["USD"]
    IN {Num(recs[i].val) : i \in {j \in 1..Len(recs) : recs[j].fp = "FY"}}

\* C11: the first taxonomy of the order that the document has wins: every
\* requested account with a USD bucket and annual records under it yields a
\* non-empty series whose values are values of those records, be that
\* taxonomy us-gaap or, in a document without us-gaap, ifrs-full.
C11_FirstTaxonomyWins ==
    (Len(company_dfs) = Len(account_list) /\ Len(log) >= 2 /\ PresentTaxonomies(json_file) # {}) =>
        \A i \in 1..Len(account_list) :
            AnnualUnder(json_file, FirstTaxonomy(json_file), account_list[i]) =>
                /\ ~IsEmptyDF(company_dfs[i])
                /\ \A k \in 1..Len(company_dfs[i].rows) :
                      company_dfs[i].rows[k][account_list[i]]
                          \in AnnualValues(json_file, FirstTaxonomy(json_file), account_list[i])
====
